---- MODULE Spec2Model ----
(***************************************************************************)
(* ConsentManager (analytics consent record kept in localStorage) and      *)
(* WindowPersistenceService (debounced window-size persistence).           *)
(*                                                                         *)
(* A JavaScript object is a TLA+ record whose DOMAIN is the set of keys    *)
(* the object has: an undefined field is an absent key.  JSON.stringify    *)
(* followed by JSON.parse keeps exactly the present keys.                  *)
(*                                                                         *)
(* Every ConsentManager method is one action: each caller awaits the       *)
(* promise before the next call is made.  The deferred callback of         *)
(* saveWindowSize awaits a platform call, so it is split at that await:    *)
(* the timer fires, the platform answers, the promise settles.             *)
(*                                                                         *)
(* The random identifiers (UUID, session id) are drawn fresh: draw number  *)
(* n of the random source yields the identifier n.                         *)
(***************************************************************************)
EXTENDS Integers, Sequences, FiniteSets, TLC

VARIABLES
  localStorage,   \* key -> stored value (the browser's localStorage)
  settings,       \* ConsentManager.settings: Null or the record
  idCount,        \* number of identifiers drawn from the random source
  now,            \* the clock (Date.now(), new Date()), in milliseconds
  faulty,         \* whether localStorage calls may throw in this run
  last,           \* the last ConsentManager call: its name and outcome
  win,            \* the inner size of the platform window
  wps,            \* WindowPersistenceService.saveTimeout, the timers set with
                  \* setTimeout, and the record of the calls that set them
  inflight,       \* deferred callbacks that fired and await window.innerSize()
  handlers,       \* the handleResize closures subscribed to 'resize'
  cleanups,       \* the cleanup functions initializeResizeListener() returned
  writes,         \* burst of calls -> window-size records written for it
  wlast           \* the last WindowPersistenceService step and its outcome

consentVars == <<settings, idCount, last>>
windowVars  == <<win, wps, inflight, handlers, cleanups, writes, wlast>>
vars == <<localStorage, now, faulty, consentVars, windowVars>>

(***************************************************************************)
(* Bounds of the model.                                                    *)
(***************************************************************************)
MaxIds   == 5     \* identifiers drawn from the random source
MaxTicks == 4     \* clock ticks
MaxTimers == 2    \* timers set with setTimeout
MaxListeners == 1 \* calls of initializeResizeListener()

(***************************************************************************)
(* Program constants.                                                      *)
(***************************************************************************)
ANALYTICS_STORAGE_KEY   == "claudia-analytics-settings"
WINDOW_SIZE_KEY         == "claudia_window_size"
PERSISTENCE_ENABLED_KEY == "claudia_window_persistence_enabled"
DEBOUNCE_MS == 500
MIN_WIDTH  == 400
MAX_WIDTH  == 4000
MIN_HEIGHT == 300
MAX_HEIGHT == 3000

Keys == {ANALYTICS_STORAGE_KEY, WINDOW_SIZE_KEY, PERSISTENCE_ENABLED_KEY}

\* The clock advances in steps of half the debounce delay.
TickMs  == DEBOUNCE_MS \div 2
MaxTime == MaxTicks * TickMs

(***************************************************************************)
(* JavaScript values.                                                      *)
(***************************************************************************)
\* The JavaScript null held by ConsentManager.settings before initialization.
Null == [null |-> TRUE]

\* obj.f = v
Put(obj, f, v) == (f :> v) @@ obj

\* obj.f is present (not undefined)
Has(obj, f) == f \in DOMAIN obj

\* obj.f is truthy, for a boolean field
TruthyBool(obj, f) == Has(obj, f) /\ obj[f] = TRUE

\* new Date(t).toISOString()
toISOString(t) == <<"ISO", t>>

(***************************************************************************)
(* localStorage values.  A key is absent, or holds text that JSON.parse    *)
(* rejects, or holds the JSON text of a value (null or an object), or      *)
(* holds a plain string (the persistence flag).                            *)
(***************************************************************************)
Absent  == [kind |-> "absent"]
Garbage == [kind |-> "garbage"]
Json(v) == [kind |-> "json", val |-> v]
Raw(s)  == [kind |-> "raw", val |-> s]

\* JSON.stringify(v)
JSONstringify(v) == Json(v)

\* localStorage.getItem(k)
getItem(ls, k) == ls[k]

\* localStorage.setItem(k, v)
setItem(ls, k, v) == [ls EXCEPT ![k] = v]

\* localStorage.removeItem(k)
removeItem(ls, k) == [ls EXCEPT ![k] = Absent]

\* The failures a localStorage call can be given in this run.
Fail == IF faulty THEN BOOLEAN ELSE {FALSE}

\* One failure flag for each of the up to three setItem calls of a method.
WriteFails == [1..3 -> Fail]

(***************************************************************************)
(* ConsentManager                                                          *)
(***************************************************************************)
DefaultSettings == [enabled |-> FALSE, hasConsented |-> FALSE, hasSeenBanner |-> FALSE]

\* The mutant of saveSettings() writes the record without its consentDate.
saveSettings_DropsDate(s, ls, fail) ==
  IF s = Null THEN [ls |-> ls, writes |-> 0]
  ELSE IF fail THEN [ls |-> ls, writes |-> 1]
  ELSE [ls |-> setItem(ls, ANALYTICS_STORAGE_KEY,
                       JSONstringify([f \in DOMAIN s \ {"consentDate"} |-> s[f]])),
        writes |-> 1]

\* saveSettings(): the storage after it and the number of setItem calls made.
saveSettings(s, ls, fail) ==
  IF s = Null THEN [ls |-> ls, writes |-> 0]
  ELSE IF fail THEN [ls |-> ls, writes |-> 1]
  ELSE [ls |-> setItem(ls, ANALYTICS_STORAGE_KEY, JSONstringify(s)), writes |-> 1]

\* hasInteractedBefore of initialize(), evaluated on the record s.
hasInteractedBefore(s) ==
  TruthyBool(s, "hasConsented") \/ Has(s, "consentDate") \/ Has(s, "userId")

\* The catch branch of initialize(): the error is logged, the default record
\* returned; this.settings and the storage stay as they were.  The mutant
\* keeps and persists the default record.
initializeCatch_Persists(s, ls, ids) ==
  [settings |-> DefaultSettings,
   ls |-> setItem(ls, ANALYTICS_STORAGE_KEY, JSONstringify(DefaultSettings)),
   ids |-> ids, ret |-> DefaultSettings, writes |-> 1, threw |-> FALSE]

initializeCatch(s, ls, ids) ==
  [settings |-> s, ls |-> ls, ids |-> ids, ret |-> DefaultSettings,
   writes |-> 0, threw |-> FALSE]

\* initialize() called with in-memory record s, storage ls, identifiers drawn so
\* far ids; rf: getItem throws; wf: which setItem calls throw.
initialize(s, ls, rf, wf, ids) ==
  LET stored    == getItem(ls, ANALYTICS_STORAGE_KEY)
      threwLoad == rf \/ stored.kind = "garbage"
      s0        == IF stored.kind = "absent" THEN DefaultSettings ELSE stored.val
      needUid   == s0 # Null /\ ~Has(s0, "userId")
      s1        == IF needUid THEN Put(s0, "userId", ids + 1) ELSE s0
      ids1      == IF needUid THEN ids + 1 ELSE ids
      sv1       == IF needUid THEN saveSettings(s1, ls, wf[1])
                   ELSE [ls |-> ls, writes |-> 0]
      s2        == IF s1 # Null THEN Put(s1, "sessionId", ids1 + 1) ELSE s1
      ids2      == IF s1 # Null THEN ids1 + 1 ELSE ids1
      needSeen  == s2 # Null /\ ~Has(s2, "hasSeenBanner")
      s3        == IF needSeen THEN Put(s2, "hasSeenBanner", hasInteractedBefore(s2))
                   ELSE s2
      sv2       == IF needSeen THEN saveSettings(s3, sv1.ls, wf[sv1.writes + 1])
                   ELSE [ls |-> sv1.ls, writes |-> 0]
  IN  IF threwLoad
      THEN initializeCatch(s, ls, ids)
      ELSE [settings |-> s3, ls |-> sv2.ls, ids |-> ids2,
            ret |-> IF s3 # Null THEN s3 ELSE DefaultSettings,
            writes |-> sv1.writes + sv2.writes, threw |-> FALSE]

\* "if (!this.settings) await this.initialize()" of grantConsent and revokeConsent
ensureInitialized(s, ls, rf, wf, ids) ==
  IF s = Null THEN initialize(s, ls, rf, wf, ids)
  ELSE [settings |-> s, ls |-> ls, ids |-> ids, ret |-> s, writes |-> 0, threw |-> FALSE]

\* The mutant of grantConsent() records no consentDate.
grantConsent_NoDate(s, ls, rf, wf, ids, t) ==
  LET r0 == ensureInitialized(s, ls, rf, wf, ids)
      s1 == Put(Put(Put(r0.settings, "enabled", TRUE), "hasConsented", TRUE),
                "hasSeenBanner", TRUE)
      sv == saveSettings(s1, r0.ls, wf[r0.writes + 1])
  IN  IF r0.settings = Null
      THEN [r0 EXCEPT !.threw = TRUE]
      ELSE [settings |-> s1, ls |-> sv.ls, ids |-> r0.ids, ret |-> r0.settings,
            writes |-> r0.writes + sv.writes, threw |-> FALSE]

\* grantConsent() at time t.  Assigning a field of null throws a TypeError.
grantConsent(s, ls, rf, wf, ids, t) ==
  LET r0 == ensureInitialized(s, ls, rf, wf, ids)
      s1 == Put(Put(Put(Put(r0.settings, "enabled", TRUE), "hasConsented", TRUE),
                    "hasSeenBanner", TRUE), "consentDate", toISOString(t))
      sv == saveSettings(s1, r0.ls, wf[r0.writes + 1])
  IN  IF r0.settings = Null
      THEN [r0 EXCEPT !.threw = TRUE]
      ELSE [settings |-> s1, ls |-> sv.ls, ids |-> r0.ids, ret |-> r0.settings,
            writes |-> r0.writes + sv.writes, threw |-> FALSE]

\* The mutant of revokeConsent() does not mark the banner as seen.
revokeConsent_NoBanner(s, ls, rf, wf, ids, t) ==
  LET r0 == ensureInitialized(s, ls, rf, wf, ids)
      s1 == Put(Put(r0.settings, "enabled", FALSE), "consentDate", toISOString(t))
      sv == saveSettings(s1, r0.ls, wf[r0.writes + 1])
  IN  IF r0.settings = Null
      THEN [r0 EXCEPT !.threw = TRUE]
      ELSE [settings |-> s1, ls |-> sv.ls, ids |-> r0.ids, ret |-> r0.settings,
            writes |-> r0.writes + sv.writes, threw |-> FALSE]

\* revokeConsent() at time t.
revokeConsent(s, ls, rf, wf, ids, t) ==
  LET r0 == ensureInitialized(s, ls, rf, wf, ids)
      s1 == Put(Put(Put(r0.settings, "enabled", FALSE),
                    "hasSeenBanner", TRUE), "consentDate", toISOString(t))
      sv == saveSettings(s1, r0.ls, wf[r0.writes + 1])
  IN  IF r0.settings = Null
      THEN [r0 EXCEPT !.threw = TRUE]
      ELSE [settings |-> s1, ls |-> sv.ls, ids |-> r0.ids, ret |-> r0.settings,
            writes |-> r0.writes + sv.writes, threw |-> FALSE]

\* The mutant of deleteAllData() keeps the userId it finds.
deleteAllData_KeepsUserId(s, ls, mf, wf, ids) ==
  LET ls1 == removeItem(ls, ANALYTICS_STORAGE_KEY)
      s1  == [enabled |-> FALSE, hasConsented |-> FALSE, hasSeenBanner |-> FALSE,
              userId |-> IF s # Null /\ Has(s, "userId") THEN s.userId ELSE ids + 1,
              sessionId |-> ids + 2]
      sv  == saveSettings(s1, ls1, wf[1])
  IN  [settings |-> s1, ls |-> sv.ls, ids |-> ids + 2, ret |-> s,
       writes |-> sv.writes, threw |-> mf]

\* The mutant of deleteAllData() empties the whole storage.
deleteAllData_ClearsAll(s, ls, mf, wf, ids) ==
  LET ls1 == [k \in Keys |-> Absent]
      s1  == [enabled |-> FALSE, hasConsented |-> FALSE, hasSeenBanner |-> FALSE,
              userId |-> ids + 1, sessionId |-> ids + 2]
      sv  == saveSettings(s1, ls1, wf[1])
  IN  [settings |-> s1, ls |-> sv.ls, ids |-> ids + 2, ret |-> s,
       writes |-> sv.writes, threw |-> mf]

\* deleteAllData(); mf: removeItem throws.
deleteAllData(s, ls, mf, wf, ids) ==
  LET ls1 == removeItem(ls, ANALYTICS_STORAGE_KEY)
      s1  == [enabled |-> FALSE, hasConsented |-> FALSE, hasSeenBanner |-> FALSE,
              userId |-> ids + 1, sessionId |-> ids + 2]
      sv  == saveSettings(s1, ls1, wf[1])
  IN  IF mf
      THEN [settings |-> s, ls |-> ls, ids |-> ids, ret |-> s, writes |-> 0,
            threw |-> TRUE]
      ELSE [settings |-> s1, ls |-> sv.ls, ids |-> ids + 2, ret |-> s,
            writes |-> sv.writes, threw |-> FALSE]

\* The accessors.
hasConsented  == settings # Null /\ TruthyBool(settings, "hasConsented")
hasSeenBanner == settings # Null /\ TruthyBool(settings, "hasSeenBanner")
isEnabled     == settings # Null /\ TruthyBool(settings, "enabled")

\* What a call leaves in "last": pre is the in-memory record the call found,
\* ls0 the stored value it found, rf whether its getItem threw, ret the record
\* it returned or (grantConsent, revokeConsent) the record it was about to
\* change.  The record is kept until the clock advances, so that while
\* last.op names a call, now is the time of that call.
Outcome(op, r, rf) ==
  [op |-> op, threw |-> r.threw, ret |-> r.ret, writes |-> r.writes, rf |-> rf,
   pre |-> settings, ls0 |-> localStorage[ANALYTICS_STORAGE_KEY]]

Apply(op, r, rf) ==
  /\ r.ids <= MaxIds
  /\ settings' = r.settings
  /\ localStorage' = r.ls
  /\ idCount' = r.ids
  /\ last' = Outcome(op, r, rf)
  /\ UNCHANGED <<now, faulty, windowVars>>

Initialize ==
  \E rf \in Fail, wf \in WriteFails :
    Apply("initialize", initialize(settings, localStorage, rf, wf, idCount), rf)

GrantConsent ==
  \E rf \in Fail, wf \in WriteFails :
    Apply("grantConsent", grantConsent(settings, localStorage, rf, wf, idCount, now), rf)

RevokeConsent ==
  \E rf \in Fail, wf \in WriteFails :
    Apply("revokeConsent", revokeConsent(settings, localStorage, rf, wf, idCount, now), rf)

DeleteAllData ==
  \E mf \in Fail, wf \in WriteFails :
    Apply("deleteAllData", deleteAllData(settings, localStorage, mf, wf, idCount), FALSE)

\* getUserId() on the record s: the held userId, or a newly drawn identifier,
\* which is returned and not kept.
getUserId(s, ids) ==
  IF s # Null /\ Has(s, "userId") THEN s.userId ELSE ids + 1

\* getSessionId() on the record s.
getSessionId(s, ids) ==
  IF s # Null /\ Has(s, "sessionId") THEN s.sessionId ELSE ids + 1

\* No call was made since the clock last advanced.
NoCall == [op |-> "none", threw |-> FALSE, ret |-> Null, writes |-> 0, rf |-> FALSE,
           pre |-> Null, ls0 |-> Absent]

(***************************************************************************)
(* WindowPersistenceService                                                *)
(*                                                                         *)
(* wps.saveTimeout is the static field (0 for null); wps.timers are the    *)
(* timers set and neither fired nor cleared, each with the time it is due, *)
(* the window size at the call that set it and the burst of that call;     *)
(* wps.timerCount counts the handles setTimeout has returned.  A call      *)
(* belongs to the burst of the call before it when less than DEBOUNCE_MS   *)
(* lie between them.  wps.cleaned: a cleanup function has unsubscribed a   *)
(* handler and no save has been scheduled since.                           *)
(***************************************************************************)
Size(w, h) == [width |-> w, height |-> h]

\* isEnabled() of WindowPersistenceService on the storage ls
isPersistenceEnabled(ls) ==
  LET enabled == getItem(ls, PERSISTENCE_ENABLED_KEY)
  IN  enabled = Absent \/ enabled = Raw("true")

\* String(enabled)
String(b) == IF b THEN "true" ELSE "false"

\* clearTimeout(id)
clearTimeout(timers, id) == {tm \in timers : tm.id # id}

\* The burst a call at time t belongs to.
BurstOf(w, t) ==
  IF w.burst > 0 /\ t - w.lastCallAt < DEBOUNCE_MS THEN w.burst ELSE w.burst + 1

\* The mutant of saveWindowSize() clears the pending timeout only when the
\* call opens a new burst.
saveWindowSize_ClearsAcrossBursts(w, ls, rf, t, size) ==
  IF rf THEN [wps |-> w, threw |-> TRUE, scheduled |-> 0]
  ELSE IF ~isPersistenceEnabled(ls) THEN [wps |-> w, threw |-> FALSE, scheduled |-> 0]
  ELSE LET id == w.timerCount + 1
           b  == BurstOf(w, t)
           cleared == IF w.saveTimeout # 0 /\ b # w.burst
                      THEN clearTimeout(w.timers, w.saveTimeout) ELSE w.timers
       IN  [wps |-> [saveTimeout |-> id,
                     timers |-> cleared \cup {[id |-> id, due |-> t + DEBOUNCE_MS,
                                               callSize |-> size, burst |-> b]},
                     timerCount |-> id, burst |-> b, lastCallAt |-> t,
                     cleaned |-> FALSE],
            threw |-> FALSE, scheduled |-> 1]

\* The mutant of saveWindowSize() does not clear the pending timeout.
saveWindowSize_NoClear(w, ls, rf, t, size) ==
  IF rf THEN [wps |-> w, threw |-> TRUE, scheduled |-> 0]
  ELSE IF ~isPersistenceEnabled(ls) THEN [wps |-> w, threw |-> FALSE, scheduled |-> 0]
  ELSE LET id == w.timerCount + 1
           b  == BurstOf(w, t)
       IN  [wps |-> [saveTimeout |-> id,
                     timers |-> w.timers \cup {[id |-> id, due |-> t + DEBOUNCE_MS,
                                                callSize |-> size, burst |-> b]},
                     timerCount |-> id, burst |-> b, lastCallAt |-> t,
                     cleaned |-> FALSE],
            threw |-> FALSE, scheduled |-> 1]

\* saveWindowSize() at time t with the window at size; rf: the getItem of
\* isEnabled() throws (the promise is rejected).
saveWindowSize(w, ls, rf, t, size) ==
  IF rf THEN [wps |-> w, threw |-> TRUE, scheduled |-> 0]
  ELSE IF ~isPersistenceEnabled(ls) THEN [wps |-> w, threw |-> FALSE, scheduled |-> 0]
  ELSE LET cleared == IF w.saveTimeout # 0 THEN clearTimeout(w.timers, w.saveTimeout)
                      ELSE w.timers
           id == w.timerCount + 1
           b  == BurstOf(w, t)
       IN  [wps |-> [saveTimeout |-> id,
                     timers |-> cleared \cup {[id |-> id, due |-> t + DEBOUNCE_MS,
                                               callSize |-> size, burst |-> b]},
                     timerCount |-> id, burst |-> b, lastCallAt |-> t,
                     cleaned |-> FALSE],
            threw |-> FALSE, scheduled |-> 1]

\* The 'resize' event: each of the n subscribed handleResize closures calls
\* saveWindowSize(); a rejected promise is dropped.
RECURSIVE dispatchResize(_, _, _, _, _, _)
dispatchResize(w, ls, rf, t, size, n) ==
  IF n = 0 THEN [wps |-> w, threw |-> FALSE, scheduled |-> 0]
  ELSE LET r    == saveWindowSize(w, ls, rf, t, size)
           rest == dispatchResize(r.wps, ls, rf, t, size, n - 1)
       IN  [rest EXCEPT !.scheduled = @ + r.scheduled]

\* The deferred callback of saveWindowSize() once window.innerSize() settles,
\* at time t, size being what the platform answered; pf: innerSize() rejects;
\* wf: setItem throws.  Both errors are caught and logged.
deferredSave(ls, pf, wf, t, size) ==
  IF pf \/ wf THEN [ls |-> ls, wrote |-> FALSE]
  ELSE [ls |-> setItem(ls, WINDOW_SIZE_KEY,
                       JSONstringify([width |-> size.width, height |-> size.height,
                                      timestamp |-> t])),
        wrote |-> TRUE]

\* clearWindowSize(); mf: removeItem throws.
clearWindowSize(ls, mf) ==
  IF mf THEN [ls |-> ls, threw |-> TRUE]
  ELSE [ls |-> removeItem(ls, WINDOW_SIZE_KEY), threw |-> FALSE]

\* The mutant of setEnabled() leaves the saved size when disabling.
setEnabled_NoClear(ls, enabled, wf, mf) ==
  IF wf THEN [ls |-> ls, threw |-> TRUE]
  ELSE [ls |-> setItem(ls, PERSISTENCE_ENABLED_KEY, Raw(String(enabled))),
        threw |-> FALSE]

\* setEnabled(enabled); wf: setItem throws; mf: removeItem throws.
setEnabled(ls, enabled, wf, mf) ==
  IF wf THEN [ls |-> ls, threw |-> TRUE]
  ELSE LET ls1 == setItem(ls, PERSISTENCE_ENABLED_KEY, Raw(String(enabled)))
       IN  IF ~enabled THEN clearWindowSize(ls1, mf) ELSE [ls |-> ls1, threw |-> FALSE]

\* The mutant of the validation accepts any width and height of at least the
\* minimum.
invalidSize_NoMaximum(ws) ==
  \/ ~Has(ws, "width") \/ ws.width = 0
  \/ ~Has(ws, "height") \/ ws.height = 0
  \/ ws.width < MIN_WIDTH \/ ws.height < MIN_HEIGHT

\* The validation of restoreWindowSize(): the saved record is rejected.
invalidSize(ws) ==
  \/ ~Has(ws, "width") \/ ws.width = 0
  \/ ~Has(ws, "height") \/ ws.height = 0
  \/ ws.width < MIN_WIDTH \/ ws.height < MIN_HEIGHT
  \/ ws.width > MAX_WIDTH \/ ws.height > MAX_HEIGHT

\* restoreWindowSize(); rf: the getItem of isEnabled() throws; rf2: the getItem
\* of the saved record throws; pf: window.setSize() rejects.  setSize lists the
\* sizes window.setSize() was called with.
restoreWindowSize(ls, rf, rf2, pf) ==
  LET savedData == getItem(ls, WINDOW_SIZE_KEY)
      no        == [ret |-> FALSE, threw |-> FALSE, setSize |-> <<>>]
  IN  IF rf THEN [ret |-> FALSE, threw |-> TRUE, setSize |-> <<>>]
      ELSE IF ~isPersistenceEnabled(ls) THEN no
      ELSE IF rf2 THEN no
      ELSE IF savedData.kind = "absent" THEN no
      ELSE IF savedData.kind = "garbage" THEN no
      ELSE IF savedData.val = Null THEN no
      ELSE IF invalidSize(savedData.val) THEN no
      ELSE [ret |-> ~pf, threw |-> FALSE,
            setSize |-> <<Size(savedData.val.width, savedData.val.height)>>]

\* getSavedWindowSize(); rf, rf2 as for restoreWindowSize().  It changes
\* nothing: it is evaluated on a state, not taken as a step.
getSavedWindowSize(ls, rf, rf2) ==
  LET savedData == getItem(ls, WINDOW_SIZE_KEY)
      none      == [ret |-> Null, threw |-> FALSE]
  IN  IF rf THEN [ret |-> Null, threw |-> TRUE]
      ELSE IF ~isPersistenceEnabled(ls) THEN none
      ELSE IF rf2 THEN none
      ELSE IF savedData.kind = "absent" THEN none
      ELSE IF savedData.kind = "garbage" THEN none
      ELSE [ret |-> savedData.val, threw |-> FALSE]

\* The mutant of the cleanup function unsubscribes and leaves the timeout.
cleanup_NoClear(w, hs, c) ==
  IF ~c.real THEN [wps |-> w, handlers |-> hs]
  ELSE [wps |-> [w EXCEPT !.cleaned = TRUE], handlers |-> hs \ {c.id}]

\* The cleanup function c returned by initializeResizeListener().
cleanup(w, hs, c) ==
  IF ~c.real THEN [wps |-> w, handlers |-> hs]
  ELSE [wps |-> IF w.saveTimeout # 0
                THEN [w EXCEPT !.timers = clearTimeout(w.timers, w.saveTimeout),
                               !.saveTimeout = 0, !.cleaned = TRUE]
                ELSE [w EXCEPT !.cleaned = TRUE],
        handlers |-> hs \ {c.id}]

\* The sizes the user gives the window.
WinSizes == {Size(800, 600), Size(200, 200)}

SaveWindowSize ==
  \E rf \in Fail :
    LET r == saveWindowSize(wps, localStorage, rf, now, win)
    IN  /\ r.wps.timerCount <= MaxTimers
        /\ wps' = r.wps
        /\ wlast' = [op |-> "saveWindowSize", threw |-> r.threw,
                     scheduled |-> r.scheduled]
        /\ UNCHANGED <<localStorage, now, faulty, consentVars, win, inflight,
                       handlers, cleanups, writes>>

\* The user resizes the window: the platform fires 'resize'.
ResizeEvent ==
  \E size \in WinSizes \ {win}, rf \in Fail :
    LET r == dispatchResize(wps, localStorage, rf, now, size, Cardinality(handlers))
    IN  /\ r.wps.timerCount <= MaxTimers
        /\ win' = size
        /\ wps' = r.wps
        /\ wlast' = [op |-> "resizeEvent", threw |-> FALSE, scheduled |-> r.scheduled,
                     handlers |-> handlers]
        /\ UNCHANGED <<localStorage, now, faulty, consentVars, inflight, handlers,
                       cleanups, writes>>

\* A timer that is due fires: its callback calls window.innerSize() and waits;
\* the platform has not served the request yet (read is Null).
TimerFires ==
  \E tm \in wps.timers :
    /\ tm.due <= now
    /\ wps' = [wps EXCEPT !.timers = @ \ {tm}]
    /\ inflight' = inflight \cup {Put(tm, "read", Null)}
    /\ wlast' = [op |-> "timerFires", threw |-> FALSE, id |-> tm.id]
    /\ UNCHANGED <<localStorage, now, faulty, consentVars, win, handlers, cleanups,
                   writes>>

\* The platform serves the window.innerSize() request of a waiting callback:
\* the answer is the size the window has now.  The promise settles later, and
\* the promises of two waiting callbacks settle in either order.
InnerSizeReads ==
  \E cb \in inflight :
    /\ cb.read = Null
    /\ inflight' = (inflight \ {cb}) \cup {[cb EXCEPT !.read = win]}
    /\ wlast' = [op |-> "innerSizeReads", threw |-> FALSE, id |-> cb.id]
    /\ UNCHANGED <<localStorage, now, faulty, consentVars, win, wps, handlers,
                   cleanups, writes>>

\* window.innerSize() settles for a waiting callback, which then writes the
\* size it was answered.
InnerSizeSettles ==
  \E cb \in inflight, pf \in BOOLEAN, wf \in Fail :
    LET r == deferredSave(localStorage, pf, wf, now, cb.read)
    IN  /\ cb.read # Null
        /\ localStorage' = r.ls
        /\ inflight' = inflight \ {cb}
        /\ writes' = IF r.wrote THEN [writes EXCEPT ![cb.burst] = @ + 1] ELSE writes
        /\ wlast' = [op |-> "deferredSave", threw |-> FALSE, wrote |-> r.wrote,
                     pf |-> pf, wf |-> wf, id |-> cb.id, burst |-> cb.burst,
                     callSize |-> cb.callSize, readSize |-> cb.read,
                     cleaned |-> wps.cleaned]
        /\ UNCHANGED <<now, faulty, consentVars, win, wps, handlers, cleanups>>

SetEnabled ==
  \E enabled \in BOOLEAN, wf \in Fail, mf \in Fail :
    LET r == setEnabled(localStorage, enabled, wf, mf)
    IN  /\ localStorage' = r.ls
        /\ wlast' = [op |-> "setEnabled", threw |-> r.threw, enabled |-> enabled,
                     had |-> getItem(localStorage, WINDOW_SIZE_KEY) # Absent]
        /\ UNCHANGED <<now, faulty, consentVars, win, wps, inflight, handlers,
                       cleanups, writes>>

ClearWindowSize ==
  \E mf \in Fail :
    LET r == clearWindowSize(localStorage, mf)
    IN  /\ localStorage' = r.ls
        /\ wlast' = [op |-> "clearWindowSize", threw |-> r.threw]
        /\ UNCHANGED <<now, faulty, consentVars, win, wps, inflight, handlers,
                       cleanups, writes>>

\* restoreWindowSize(); when window.setSize() changes the size of the window the
\* platform fires 'resize'.
RestoreWindowSize ==
  \E rf \in Fail, rf2 \in Fail, pf \in BOOLEAN :
    LET r       == restoreWindowSize(localStorage, rf, rf2, pf)
        resized == r.ret /\ r.setSize[1] # win
        d       == IF resized
                   THEN dispatchResize(wps, localStorage, rf, now, r.setSize[1],
                                       Cardinality(handlers))
                   ELSE [wps |-> wps, threw |-> FALSE, scheduled |-> 0]
    IN  /\ d.wps.timerCount <= MaxTimers
        /\ win' = IF resized THEN r.setSize[1] ELSE win
        /\ wps' = d.wps
        /\ wlast' = [op |-> "restoreWindowSize", threw |-> r.threw, ret |-> r.ret,
                     setSize |-> r.setSize, pf |-> pf, rf2 |-> rf2]
        /\ UNCHANGED <<localStorage, now, faulty, consentVars, inflight, handlers,
                       cleanups, writes>>

\* initializeResizeListener(): the n-th call subscribes the closure n and
\* returns its cleanup function, or returns an empty function when disabled.
InitializeResizeListener ==
  \E rf \in Fail :
    LET n == Cardinality(cleanups) + 1
    IN  /\ n <= MaxListeners
        /\ IF rf
           THEN /\ wlast' = [op |-> "initializeResizeListener", threw |-> TRUE]
                /\ UNCHANGED <<handlers, cleanups>>
           ELSE IF ~isPersistenceEnabled(localStorage)
           THEN /\ cleanups' = cleanups \cup {[id |-> n, real |-> FALSE]}
                /\ wlast' = [op |-> "initializeResizeListener", threw |-> FALSE]
                /\ UNCHANGED handlers
           ELSE /\ handlers' = handlers \cup {n}
                /\ cleanups' = cleanups \cup {[id |-> n, real |-> TRUE]}
                /\ wlast' = [op |-> "initializeResizeListener", threw |-> FALSE]
        /\ UNCHANGED <<localStorage, now, faulty, consentVars, win, wps, inflight,
                       writes>>

\* A cleanup function is invoked.
Cleanup ==
  \E c \in cleanups :
    LET r == cleanup(wps, handlers, c)
    IN  /\ wps' = r.wps
        /\ handlers' = r.handlers
        /\ wlast' = [op |-> "cleanup", threw |-> FALSE, real |-> c.real, id |-> c.id,
                     hadTimer |-> wps.timers # {}, inflight |-> inflight]
        /\ UNCHANGED <<localStorage, now, faulty, consentVars, win, inflight, cleanups,
                       writes>>

\* No WindowPersistenceService step was made since the clock last advanced.
NoStep == [op |-> "none", threw |-> FALSE]

\* Time passes.
Tick ==
  /\ now + TickMs <= MaxTime
  /\ now' = now + TickMs
  /\ last' = NoCall
  /\ wlast' = NoStep
  /\ UNCHANGED <<settings, localStorage, idCount, faulty, win, wps, inflight,
                 handlers, cleanups, writes>>

(***************************************************************************)
(* Initial states.  The analytics key holds nothing, unparseable text,     *)
(* JSON null, a record written by a version without hasSeenBanner, or a    *)
(* record written by this version.  Identifier 0 and date 0 were drawn     *)
(* before this run.  The window-size key holds nothing, unparseable text,  *)
(* JSON null or a record; the flag is unset, "true" or "false".            *)
(***************************************************************************)
LegacyRecords ==
  { [enabled |-> FALSE, hasConsented |-> FALSE],
    [enabled |-> FALSE, hasConsented |-> FALSE, userId |-> 0],
    [enabled |-> TRUE, hasConsented |-> TRUE, userId |-> 0, consentDate |-> toISOString(0)],
    [enabled |-> FALSE, hasConsented |-> FALSE, consentDate |-> toISOString(0)] }

CurrentRecords ==
  { [enabled |-> FALSE, hasConsented |-> FALSE, hasSeenBanner |-> FALSE, userId |-> 0],
    [enabled |-> TRUE, hasConsented |-> TRUE, hasSeenBanner |-> TRUE, userId |-> 0,
     consentDate |-> toISOString(0)],
    [enabled |-> FALSE, hasConsented |-> TRUE, hasSeenBanner |-> TRUE, userId |-> 0,
     consentDate |-> toISOString(0)] }

StoredConsent ==
  {Absent, Garbage, Json(Null)} \cup {Json(r) : r \in LegacyRecords \cup CurrentRecords}

StoredSizes ==
  {Absent, Garbage, Json(Null)} \cup
  { Json([width |-> s[1], height |-> s[2], timestamp |-> 0]) :
      s \in { <<200, 200>>, <<1920, 1080>>, <<400, 300>>, <<4000, 3000>>,
              <<399, 300>>, <<400, 299>>, <<4001, 3000>>, <<4000, 3001>> } }

StoredFlags == {Absent, Raw("true"), Raw("false")}

ConsentIdle ==
  /\ settings = Null
  /\ idCount = 0
  /\ last = NoCall

WindowIdle ==
  /\ win = Size(800, 600)
  /\ wps = [saveTimeout |-> 0, timers |-> {}, timerCount |-> 0, burst |-> 0,
            lastCallAt |-> 0, cleaned |-> FALSE]
  /\ inflight = {}
  /\ handlers = {}
  /\ cleanups = {}
  /\ writes = [b \in 1..MaxTimers |-> 0]
  /\ wlast = NoStep

Stored(c, s, f) ==
  [k \in Keys |-> IF k = ANALYTICS_STORAGE_KEY THEN c
                  ELSE IF k = WINDOW_SIZE_KEY THEN s ELSE f]

InitConsent ==
  /\ ConsentIdle /\ WindowIdle /\ now = 0 /\ faulty = FALSE
  /\ \E c \in StoredConsent : localStorage = Stored(c, Absent, Absent)

InitConsentFaulty ==
  /\ ConsentIdle /\ WindowIdle /\ now = 0 /\ faulty = TRUE
  /\ \E c \in StoredConsent : localStorage = Stored(c, Absent, Absent)

\* The manager starts on an empty storage; the storage calls may throw.
InitConsentOwnStorage ==
  /\ ConsentIdle /\ WindowIdle /\ now = 0 /\ faulty = TRUE
  /\ localStorage = Stored(Absent, Absent, Absent)

InitWindow ==
  /\ ConsentIdle /\ WindowIdle /\ now = 0 /\ faulty = FALSE
  /\ \E s \in StoredSizes, f \in StoredFlags : localStorage = Stored(Absent, s, f)

\* The service starts on an empty storage; the storage calls succeed.
InitWindowOwnStorage ==
  /\ ConsentIdle /\ WindowIdle /\ now = 0 /\ faulty = FALSE
  /\ localStorage = Stored(Absent, Absent, Absent)

\* The service starts on a storage that holds the consent record of an
\* earlier run; the storage calls succeed.
InitSharedStorage ==
  /\ ConsentIdle /\ WindowIdle /\ now = 0 /\ faulty = FALSE
  /\ localStorage =
       Stored(Json([enabled |-> TRUE, hasConsented |-> TRUE, hasSeenBanner |-> TRUE,
                    userId |-> 0, consentDate |-> toISOString(0)]), Absent, Absent)

InitWindowFaulty ==
  /\ ConsentIdle /\ WindowIdle /\ now = 0 /\ faulty = TRUE
  /\ \E s \in StoredSizes, f \in StoredFlags : localStorage = Stored(Absent, s, f)

Init ==
  /\ ConsentIdle /\ WindowIdle /\ now = 0 /\ faulty = FALSE
  /\ \E c \in StoredConsent, s \in StoredSizes, f \in StoredFlags :
       localStorage = Stored(c, s, f)

NextConsent ==
  \/ Initialize
  \/ GrantConsent
  \/ RevokeConsent
  \/ DeleteAllData
  \/ Tick

NextWindow ==
  \/ SaveWindowSize
  \/ ResizeEvent
  \/ TimerFires
  \/ InnerSizeReads
  \/ InnerSizeSettles
  \/ SetEnabled
  \/ ClearWindowSize
  \/ RestoreWindowSize
  \/ InitializeResizeListener
  \/ Cleanup
  \/ Tick

Next == NextConsent \/ NextWindow

\* The consent manager with a localStorage whose calls succeed.
SpecConsent == InitConsent /\ [][NextConsent]_vars

\* The consent manager with a localStorage whose calls may throw.
SpecConsentFaulty == InitConsentFaulty /\ [][NextConsent]_vars

\* The consent manager on a storage that only it has written, with a
\* localStorage whose calls may throw.
SpecConsentOwnStorage == InitConsentOwnStorage /\ [][NextConsent]_vars

\* The window persistence service with a localStorage whose calls succeed;
\* the platform calls may fail.
SpecWindow == InitWindow /\ [][NextWindow]_vars

\* The window persistence service on a storage that only it has written, with
\* a localStorage whose calls succeed; the platform calls may fail.
SpecWindowOwnStorage == InitWindowOwnStorage /\ [][NextWindow]_vars

\* The window persistence service on a storage that holds a consent record.
SpecSharedStorage == InitSharedStorage /\ [][NextWindow]_vars

\* The window persistence service with a localStorage whose calls may throw.
SpecWindowFaulty == InitWindowFaulty /\ [][NextWindow]_vars

\* Both components with a localStorage whose calls succeed.
Spec == Init /\ [][Next]_vars

(***************************************************************************)
(* Claims about ConsentManager.                                            *)
(***************************************************************************)
\* C1: whatever the prior state (manager initialized or not, key absent, a
\* valid record, unparseable text), once a grantConsent() call is over the
\* in-memory record has enabled, hasConsented and hasSeenBanner true and the
\* consentDate of the time of the call.
C1_GrantAlwaysGrants ==
  last.op = "grantConsent" =>
    /\ settings # Null
    /\ TruthyBool(settings, "enabled")
    /\ TruthyBool(settings, "hasConsented")
    /\ TruthyBool(settings, "hasSeenBanner")
    /\ Has(settings, "consentDate")
    /\ settings.consentDate = toISOString(now)

\* C2: whatever the prior state, once a revokeConsent() call is over the
\* in-memory record has enabled false, hasSeenBanner true, the consentDate of
\* the time of the call, and the hasConsented it had before the call.
C2_RevokeAlwaysRevokes ==
  last.op = "revokeConsent" =>
    /\ settings # Null
    /\ Has(settings, "enabled") /\ settings.enabled = FALSE
    /\ TruthyBool(settings, "hasSeenBanner")
    /\ Has(settings, "consentDate")
    /\ settings.consentDate = toISOString(now)
    /\ TruthyBool(settings, "hasConsented") = TruthyBool(last.ret, "hasConsented")

\* A record as deleteAllData() leaves it: nothing enabled, consented or seen,
\* no consentDate, a userId.
Erased(s) ==
  /\ s # Null
  /\ Has(s, "enabled") /\ s.enabled = FALSE
  /\ Has(s, "hasConsented") /\ s.hasConsented = FALSE
  /\ Has(s, "hasSeenBanner") /\ s.hasSeenBanner = FALSE
  /\ ~Has(s, "consentDate")
  /\ Has(s, "userId")

\* The userId of a stored value, as a set: empty when it holds none.
UserIdsOf(v) ==
  IF v.kind = "json" /\ v.val # Null /\ Has(v.val, "userId") THEN {v.val.userId} ELSE {}

C3_AfterDelete ==
  last.op = "deleteAllData" =>
    /\ Erased(settings)
    /\ localStorage[ANALYTICS_STORAGE_KEY].kind = "json"
    /\ Erased(localStorage[ANALYTICS_STORAGE_KEY].val)
    /\ localStorage[ANALYTICS_STORAGE_KEY].val.userId = settings.userId
    /\ (last.pre # Null /\ Has(last.pre, "userId")) => settings.userId # last.pre.userId
    /\ settings.userId \notin UserIdsOf(last.ls0)

C3_InitializeAfterDelete ==
  (last.op = "deleteAllData" /\ last'.op = "initialize") =>
    /\ settings' # Null
    /\ Has(settings', "userId") /\ settings'.userId = settings.userId
    /\ Has(settings', "hasSeenBanner") /\ settings'.hasSeenBanner = FALSE
    /\ localStorage'[ANALYTICS_STORAGE_KEY] = localStorage[ANALYTICS_STORAGE_KEY]

\* C3: once deleteAllData() is over, the in-memory and the persisted record
\* have enabled, hasConsented and hasSeenBanner false, no consentDate and one
\* new userId, different from the one held (and the one stored) before; an
\* initialize() that follows keeps that userId and hasSeenBanner = false.
C3_DeleteAllData == []C3_AfterDelete /\ [][C3_InitializeAfterDelete]_vars

\* C3's case: deleteAllData() has replaced a record that held a userId and
\* had consent granted.
C3_Witness ==
  /\ last.op = "deleteAllData"
  /\ last.pre # Null /\ Has(last.pre, "userId") /\ TruthyBool(last.pre, "enabled")
  /\ Erased(settings) /\ settings.userId # last.pre.userId
  /\ localStorage[ANALYTICS_STORAGE_KEY] = Json(settings)

\* C4: for a stored record without hasSeenBanner, initialize() sets
\* hasSeenBanner to true exactly when the stored record has a truthy
\* hasConsented, a consentDate or a userId, and to false otherwise.
C4_BackfillFromStoredRecord ==
  ( /\ last.op = "initialize"
    /\ ~last.rf
    /\ last.ls0.kind = "json"
    /\ last.ls0.val # Null
    /\ ~Has(last.ls0.val, "hasSeenBanner") ) =>
    /\ settings # Null
    /\ Has(settings, "hasSeenBanner")
    /\ settings.hasSeenBanner = hasInteractedBefore(last.ls0.val)

\* C5: no public method of ConsentManager or of WindowPersistenceService
\* ends with an uncaught error, whatever the storage holds and whichever
\* storage or platform call fails.
C5_NothingThrows ==
  /\ ~last.threw
  /\ ~wlast.threw
  /\ \A rf \in Fail, rf2 \in Fail : ~getSavedWindowSize(localStorage, rf, rf2).threw

\* The stored value cannot be loaded (getItem throws) or parsed.
LoadFails(c) == c.rf \/ c.ls0.kind = "garbage"

\* C6: when the stored value cannot be loaded or parsed, initialize() returns
\* the default record, does not raise and leaves the storage as it was,
\* without a setItem call.
C6_InitializeFallsBack ==
  (last.op = "initialize" /\ LoadFails(last)) =>
    /\ last.ret = DefaultSettings
    /\ ~last.threw
    /\ last.writes = 0
    /\ localStorage[ANALYTICS_STORAGE_KEY] = last.ls0

\* C6's cases: getItem threw on a readable record; the text did not parse.
C6_Witness ==
  /\ last.op = "initialize" /\ last.rf /\ last.ls0.kind = "json"
  /\ last.ret = DefaultSettings
  /\ localStorage[ANALYTICS_STORAGE_KEY] = last.ls0

\* C10: once a userId is held, getUserId() keeps returning it across
\* initialize(), grantConsent() and revokeConsent(), failed writes included;
\* only deleteAllData() changes it.
C10_UserIdStable ==
  [][ ( /\ settings # Null /\ Has(settings, "userId")
        /\ last'.op # "deleteAllData" ) =>
      getUserId(settings', idCount') = getUserId(settings, idCount) ]_vars

\* What the accessors isEnabled(), hasConsented(), hasSeenBanner() and
\* getUserId() return on the record s.
Accessors(s, ids) ==
  <<s # Null /\ TruthyBool(s, "enabled"), s # Null /\ TruthyBool(s, "hasConsented"),
    s # Null /\ TruthyBool(s, "hasSeenBanner"), getUserId(s, ids)>>

\* The last call was a grantConsent() or revokeConsent() whose change of the
\* in-memory record did not reach the storage.
WriteLost ==
  /\ last.op \in {"grantConsent", "revokeConsent"}
  /\ ~last.threw
  /\ localStorage[ANALYTICS_STORAGE_KEY] # Json(settings)

\* C11: when the setItem of grantConsent() or revokeConsent() fails, the
\* accessors keep returning what that call set, also after an initialize()
\* that follows it.
C11_MemoryAuthoritative ==
  [][ (WriteLost /\ last'.op = "initialize") =>
      Accessors(settings', idCount') = Accessors(settings, idCount) ]_vars

\* A consent decision was recorded by the call last made.
DecisionRecorded ==
  last.op \in {"grantConsent", "revokeConsent"} /\ ~last.threw

C12_StaysSeen ==
  (hasSeenBanner /\ last'.op # "deleteAllData") => hasSeenBanner'

\* C12: hasSeenBanner() is true once grantConsent() or revokeConsent() has
\* recorded a decision, and stays true across every initialize(),
\* grantConsent() and revokeConsent() that follows; only deleteAllData()
\* resets it.
C12_SeenBannerOnceDecided ==
  [](DecisionRecorded => hasSeenBanner) /\ [][C12_StaysSeen]_vars

\* C12's case: an initialize() has reloaded the record of a decision made in
\* this run (the dates of earlier runs are 0), and the banner is still seen.
C12_Witness ==
  /\ last.op = "initialize" /\ ~last.rf /\ now > 0
  /\ last.pre # Null /\ Has(last.pre, "consentDate")
  /\ last.pre.consentDate = toISOString(now)
  /\ Has(last.pre, "enabled") /\ last.pre.enabled = FALSE
  /\ hasSeenBanner

\* The fields a and b agree on f: both lack it or both hold the same value.
SameField(a, b, f) == (Has(a, f) <=> Has(b, f)) /\ (Has(a, f) => a[f] = b[f])

\* The record a new manager instance holds after initialize() on the storage ls.
LoadedByFreshManager(ls) ==
  initialize(Null, ls, FALSE, [i \in 1..3 |-> FALSE], idCount).settings

\* The call last made has written the in-memory record to the storage.
Persisted(ops) == last.op \in ops /\ ~last.threw /\ last.writes > 0

\* C14 as stated, for the calls whose last statement is the write (so that
\* the record held now is the record held when it was written): the record a
\* new manager loads equals it on all six fields.
C14_RoundTripAllFields ==
  Persisted({"grantConsent", "revokeConsent", "deleteAllData"}) =>
    LET loaded == LoadedByFreshManager(localStorage)
    IN  /\ loaded # Null
        /\ \A f \in {"enabled", "hasConsented", "hasSeenBanner", "userId",
                      "sessionId", "consentDate"} : SameField(loaded, settings, f)

\* C14 as amended: the record a new manager loads equals the persisted one on
\* enabled, hasConsented, hasSeenBanner, userId and consentDate; its sessionId
\* is a new one.
C14_RoundTrip ==
  Persisted({"initialize", "grantConsent", "revokeConsent", "deleteAllData"}) =>
    LET loaded == LoadedByFreshManager(localStorage)
    IN  /\ loaded # Null
        /\ \A f \in {"enabled", "hasConsented", "hasSeenBanner", "userId",
                      "consentDate"} : SameField(loaded, settings, f)
        /\ Has(loaded, "sessionId") /\ Has(settings, "sessionId")
        /\ loaded.sessionId # settings.sessionId

\* C14's case: a record with consent granted and a consentDate was persisted.
C14_Witness ==
  /\ Persisted({"grantConsent"})
  /\ localStorage[ANALYTICS_STORAGE_KEY] = Json(settings)
  /\ Has(settings, "consentDate") /\ Has(settings, "sessionId")
  /\ LoadedByFreshManager(localStorage).consentDate = settings.consentDate

\* C15: whatever the storage holds, once an initialize() call is over the
\* in-memory record has a sessionId that was drawn during the call (it is the
\* last identifier drawn) and differs from the one held before.
C15_NewSessionEveryInitialize ==
  last.op = "initialize" =>
    /\ settings # Null
    /\ Has(settings, "sessionId")
    /\ settings.sessionId = idCount
    /\ (last.pre # Null /\ Has(last.pre, "sessionId"))
         => settings.sessionId # last.pre.sessionId

\* C20: on a storage only the manager has written, with or without failing
\* storage calls, isEnabled() implies hasConsented() and hasSeenBanner(), and
\* hasConsented() implies that a consentDate is set.
C20_EnabledImpliesConsent ==
  /\ isEnabled => (hasConsented /\ hasSeenBanner)
  /\ hasConsented => Has(settings, "consentDate")

\* C20's case: consent was granted, the write failed, and an initialize()
\* reloaded what an earlier revokeConsent() had stored.
C20_Witness ==
  /\ last.op = "initialize" /\ ~last.rf
  /\ last.pre # Null /\ TruthyBool(last.pre, "enabled")
  /\ hasConsented /\ ~isEnabled /\ hasSeenBanner

(***************************************************************************)
(* Claims about WindowPersistenceService.                                  *)
(***************************************************************************)
\* The window-size record written at time t for the size s.
Written(s, t) == Json([width |-> s.width, height |-> s.height, timestamp |-> t])

\* No burst of calls has more than one write; the only timer pending is the one
\* of the last call; a deferred callback writes unless a call of its fails.
DebounceOnce ==
  /\ \A b \in DOMAIN writes : writes[b] <= 1
  /\ \A tm \in wps.timers : tm.id = wps.timerCount
  /\ wlast.op = "deferredSave" => (wlast.wrote <=> (~wlast.pf /\ ~wlast.wf))

\* C7 as stated: N calls of saveWindowSize(), each within 500ms of the one
\* before, give one write, of the window size at the time of the last call.
C7_WritesSizeAtLastCall ==
  /\ DebounceOnce
  /\ (wlast.op = "deferredSave" /\ wlast.wrote) =>
       localStorage[WINDOW_SIZE_KEY] = Written(wlast.callSize, now)

\* C7 as amended: N calls of saveWindowSize(), each within 500ms of the one
\* before, give at most one write, made by the deferred callback of the last
\* call unless its platform read or its setItem fails, and what is written
\* is the window size the callback reads when it runs.
C7_Debounce ==
  /\ DebounceOnce
  /\ (wlast.op = "deferredSave" /\ wlast.wrote) =>
       localStorage[WINDOW_SIZE_KEY] = Written(wlast.readSize, now)

\* C7's case: the second call of a burst of two has written, after the window
\* changed size between that call and the read.
C7_Witness ==
  /\ wlast.op = "deferredSave" /\ wlast.wrote
  /\ wlast.id = 2 /\ wlast.burst = 1
  /\ wlast.callSize # wlast.readSize
  /\ writes[1] = 1

\* The stored window-size record, when one exists, as a set.
SavedRecords ==
  LET saved == localStorage[WINDOW_SIZE_KEY]
  IN  IF saved.kind = "json" /\ saved.val # Null THEN {saved.val} ELSE {}

InRange(ws) ==
  /\ Has(ws, "width") /\ MIN_WIDTH <= ws.width /\ ws.width <= MAX_WIDTH
  /\ Has(ws, "height") /\ MIN_HEIGHT <= ws.height /\ ws.height <= MAX_HEIGHT

PersistenceOn ==
  localStorage[PERSISTENCE_ENABLED_KEY] \in {Absent, Raw("true")}

\* C8: restoreWindowSize() returns true and calls setSize once, with the
\* stored width and height, exactly when persistence is enabled, a record is
\* stored, its width is in 400..4000 and its height in 300..3000, and the
\* platform call succeeds; with persistence disabled or the record absent,
\* unparseable or out of range it returns false and calls setSize never.
C8_Restore ==
  wlast.op = "restoreWindowSize" =>
    LET good == {ws \in SavedRecords : InRange(ws)}
    IN  /\ ~wlast.threw
        /\ Len(wlast.setSize) <= 1
        /\ (wlast.ret /\ Len(wlast.setSize) = 1)
             <=> (PersistenceOn /\ good # {} /\ ~wlast.pf)
        /\ \A ws \in good :
             wlast.setSize # <<>> => wlast.setSize = <<Size(ws.width, ws.height)>>
        /\ (~PersistenceOn \/ good = {}) => (~wlast.ret /\ wlast.setSize = <<>>)
        /\ wlast.ret => win = wlast.setSize[1]

\* C8's case: the record 1920 x 1080 has been restored.
C8_Witness ==
  /\ wlast.op = "restoreWindowSize" /\ wlast.ret
  /\ wlast.setSize = <<Size(1920, 1080)>>
  /\ win = Size(1920, 1080)

\* What the cleanup function of a subscribed listener does: the handler is
\* unsubscribed, no timer stays pending and saveTimeout is null until a save
\* is scheduled again, and a 'resize' with no handler schedules nothing.
CleanupCancels ==
  /\ wps.cleaned => (wps.timers = {} /\ wps.saveTimeout = 0)
  /\ (wlast.op = "cleanup" /\ wlast.real) => wlast.id \notin handlers
  /\ (wlast.op = "resizeEvent" /\ wlast.handlers = {}) => wlast.scheduled = 0

\* C9 as stated: after the cleanup no record is written until saveWindowSize()
\* is called again, also when the cleanup ran after the timer had fired.
C9_NoWriteAfterCleanup ==
  /\ CleanupCancels
  /\ (wlast.op = "deferredSave" /\ wlast.wrote) => ~wlast.cleaned

\* C9 as amended: the cleanup function of a subscribed listener cancels the
\* save that is scheduled; a callback that has fired and awaits the platform
\* size read is not among the timers and is left to write.
C9_CleanupCancelsScheduled ==
  /\ CleanupCancels
  /\ (wlast.op = "cleanup" /\ wlast.real) => inflight = wlast.inflight

\* C9's case: a cleanup cancelled a scheduled save while the callback of an
\* earlier one was awaiting the size read.
C9_Witness ==
  /\ wlast.op = "cleanup" /\ wlast.real /\ wlast.hadTimer
  /\ wps.timers = {} /\ wps.saveTimeout = 0
  /\ inflight # {}

\* C13: once setEnabled(false) is over, getSavedWindowSize() returns null and
\* the window-size record is gone from the storage, whatever the storage held;
\* getSavedWindowSize() returns null for as long as the flag is "false".
C13_DisableClears ==
  /\ (wlast.op = "setEnabled" /\ ~wlast.enabled) =>
       /\ ~wlast.threw
       /\ getSavedWindowSize(localStorage, FALSE, FALSE) = [ret |-> Null, threw |-> FALSE]
       /\ getItem(localStorage, WINDOW_SIZE_KEY) = Absent
  /\ ~PersistenceOn => getSavedWindowSize(localStorage, FALSE, FALSE).ret = Null

\* C13's case: setEnabled(false) found a window-size record and enabled
\* persistence, and removed the record.
C13_Witness ==
  /\ wlast.op = "setEnabled" /\ ~wlast.enabled /\ wlast.had
  /\ getItem(localStorage, WINDOW_SIZE_KEY) = Absent
  /\ getItem(localStorage, PERSISTENCE_ENABLED_KEY) = Raw("false")

\* C16: at most one deferred save is scheduled and not yet fired, and it is
\* the one saveTimeout names: each saveWindowSize() cancels the one before.
C16_OnePendingSave ==
  /\ Cardinality(wps.timers) <= 1
  /\ \A tm \in wps.timers : tm.id = wps.saveTimeout

\* C16's case: a second saveWindowSize() has replaced the save the first one
\* scheduled, which had neither fired nor been cancelled by a cleanup.
C16_Witness ==
  /\ wlast.op = "saveWindowSize" /\ wlast.scheduled = 1
  /\ wps.timerCount = 2 /\ wps.saveTimeout = 2
  /\ {tm.id : tm \in wps.timers} = {2}
  /\ now < DEBOUNCE_MS /\ cleanups = {}

\* C17: while the flag is "false" after a setEnabled(false), which removed the
\* record, no step other than a setEnabled() puts a window-size record into
\* the storage, a deferred save that was scheduled or waiting included.
C17_NoWriteWhileDisabled ==
  [][ ( /\ getItem(localStorage, PERSISTENCE_ENABLED_KEY) = Raw("false")
        /\ getItem(localStorage, WINDOW_SIZE_KEY) = Absent
        /\ wlast'.op # "setEnabled" ) =>
      getItem(localStorage', WINDOW_SIZE_KEY) = Absent ]_vars

\* C18: when two deferred saves that had both fired write one after the other
\* and none is waiting any more, the stored record holds the width and height
\* read by the one that fired later (timers fire in the order of their ids).
C18_LastFiredWins ==
  [][ ( /\ wlast.op = "deferredSave" /\ wlast.wrote
        /\ wlast'.op = "deferredSave" /\ wlast'.wrote
        /\ wlast'.id # wlast.id
        /\ inflight' = {} ) =>
      LET latest == IF wlast'.id > wlast.id THEN wlast'.readSize ELSE wlast.readSize
          stored == getItem(localStorage', WINDOW_SIZE_KEY).val
      IN  Size(stored.width, stored.height) = latest ]_vars

(***************************************************************************)
(* Claim about the two components on one storage.                          *)
(***************************************************************************)
WindowKeys == {WINDOW_SIZE_KEY, PERSISTENCE_ENABLED_KEY}

\* The in-memory records the ConsentManager methods are called on.
ConsentInputs == {Null} \cup CurrentRecords

\* The storages the four ConsentManager methods leave, called on the
\* in-memory record s and the storage ls.
ConsentResults(s, ls) ==
  LET wf == [i \in 1..3 |-> FALSE]
  IN  { initialize(s, ls, FALSE, wf, idCount).ls,
        grantConsent(s, ls, FALSE, wf, idCount, now).ls,
        revokeConsent(s, ls, FALSE, wf, idCount, now).ls,
        deleteAllData(s, ls, FALSE, wf, idCount).ls }

C19_ConsentFrame ==
  \A s \in ConsentInputs : \A ls \in ConsentResults(s, localStorage) :
    \A k \in WindowKeys : ls[k] = localStorage[k]

C19_WindowFrame ==
  /\ localStorage'[ANALYTICS_STORAGE_KEY] = localStorage[ANALYTICS_STORAGE_KEY]
  /\ wlast'.op = "restoreWindowSize" => localStorage' = localStorage

\* C19: every ConsentManager method, called in any state the window service
\* reaches, leaves the two window keys as they are; every step of the window
\* service leaves the analytics key as it is, and restoreWindowSize() leaves
\* all three.  The accessors of ConsentManager, isEnabled() and
\* getSavedWindowSize() are evaluated on a state and return no storage.
C19_DisjointKeys == []C19_ConsentFrame /\ [][C19_WindowFrame]_vars

\* C19's case: the deferred save has written the window-size record next to
\* the consent record, which a grantConsent() called now would replace.
C19_Witness ==
  /\ wlast.op = "deferredSave" /\ wlast.wrote
  /\ getItem(localStorage, WINDOW_SIZE_KEY) # Absent
  /\ getItem(localStorage, ANALYTICS_STORAGE_KEY) # Absent
  /\ \E ls \in ConsentResults(Null, localStorage) :
       ls[ANALYTICS_STORAGE_KEY] # localStorage[ANALYTICS_STORAGE_KEY]

====
